---- MODULE Spec2Model ----
(***************************************************************************)
(* A model of gocols' select tool (src/select/select.go) and the part of   *)
(* the config package it uses (src/unnamed/part_000).                      *)
(*                                                                         *)
(* The specifications share the variables:                                 *)
(*   SpecData    one call of getix, dofixedwidth or douvarint on byte      *)
(*               streams (the decompressed content of a column file);      *)
(*   SpecIds     one call of getids on the lines of an identifier file;    *)
(*   SpecBucket  one call of dobucket on a source bucket: its calls of     *)
(*               getix and of the transcoders run on the bucket's streams; *)
(*   Spec        the process: main's preflight, the dispatch loop, the     *)
(*               dobucket goroutines and the end of the process, with the  *)
(*               stream functions reduced to their outcome;                *)
(*   SpecFair    Spec under the Go scheduler's fairness.                   *)
(* Each specification keeps the variables it does not use at their initial *)
(* value.                                                                  *)
(*                                                                         *)
(* Byte streams are sequences over 0..255.  A uint64 that has to hold      *)
(* values beyond the checker's integers (the uvarint values) is kept as    *)
(* its sequence of base-128 digits, least significant first, without       *)
(* leading zero digits; the key values stay small and are plain integers;  *)
(* getids, where the whole 64-bit range matters, keeps a uint64 as four    *)
(* 16-bit limbs.                                                           *)
(* The snappy framing is left out: a stream is what the snappy reader      *)
(* yields and what is handed to the snappy writer.                         *)
(***************************************************************************)
EXTENDS Integers, Sequences, FiniteSets, TLC

VARIABLES
    \* ---- one call of a stream function (SpecData)
    fn,       \* which function runs: "getix", "dofixedwidth", "douvarint"
    ids,      \* the global ids, sorted by getids
    src,      \* the bytes the reader yields
    rpos,     \* how many of them have been consumed
    ix,       \* the mask: built by getix, consumed by the transcoders
    i,        \* how many entries of ix the range loop has visited
    w,        \* dofixedwidth's record width
    out,      \* the bytes written to wtr so far
    st,       \* "run", "ret" (returned) or "panic"
    ev,       \* the deferred closes that have run, in order
    \* ---- the process (Spec)
    idvar, idfile, targetdir, sourcedir,  \* the string flags ("" when not given)
    replace,     \* the -replace flag
    dirs,        \* the directories that exist when the process starts
    muts,        \* what the process has created or overwritten, outside Buckets/NNNN
    files,       \* <<bucket, name>>: files created under the target's Buckets/NNNN
    mpc,         \* main's position
    NumBuckets,  \* conf.NumBuckets, once conf is loaded
    k,           \* the loop counter of main's two for loops
    sem,         \* how many values the channel sem buffers
    job,         \* the dobucket goroutines, by bucket number
    done,        \* "Done, exiting" has been logged
    exitcode,    \* the exit status of the process, -1 while it runs
    \* ---- one bucket (SpecBucket)
    sbucket,     \* the source bucket: dtypes.json and the column streams
    tbucket,     \* the target bucket: dtypes.json and the column files created
    curvn        \* vn of the running pass of dobucket's range loop

dvars == <<fn, ids, src, rpos, ix, i, w, out, st, ev>>

pvars == <<idvar, idfile, targetdir, sourcedir, replace, dirs, muts, files,
           mpc, NumBuckets, k, sem, job, done, exitcode>>

bvars == <<sbucket, tbucket, curvn>>

vars == <<dvars, pvars, bvars>>

-----------------------------------------------------------------------------
(* Bounds of the model *)

MaxRows == 3      \* most entries of a mask / records of a key column
MaxIds == 3       \* most identifiers in ids
MaxBuckets == 3   \* largest conf.NumBuckets
MaxLines == 2     \* most lines of an identifier file

\* const concurrency = 20 in the source; the capacity of sem.  The model runs
\* with a smaller capacity so that runs with more buckets than slots stay small.
concurrency == 2

-----------------------------------------------------------------------------
(* Generic helpers *)

RECURSIVE Concat(_)
Concat(ss) == IF ss = <<>> THEN <<>> ELSE Head(ss) \o Concat(Tail(ss))

SeqsUpTo(S, n) == UNION { [1..m -> S] : m \in 0..n }

IsSorted(a) == \A p \in 1..Len(a) - 1 : a[p] <= a[p + 1]

-----------------------------------------------------------------------------
(* Library routines the stream functions call, by what they do *)

\* io.ReadFull(rdr, b) with len(b) = n, the reader holding s and pos bytes
\* already consumed: n bytes and no error; io.EOF when n > 0 and no byte is
\* left; io.ErrUnexpectedEOF when some but fewer than n are left (the bytes
\* left are consumed).  With n = 0 it returns at once without error.
ReadFull(s, pos, n) ==
    LET left == Len(s) - pos IN
    IF left >= n THEN [err |-> "nil", b |-> SubSeq(s, pos + 1, pos + n), n |-> n]
    ELSE IF left = 0 THEN [err |-> "EOF", b |-> <<>>, n |-> 0]
    ELSE [err |-> "ErrUnexpectedEOF", b |-> SubSeq(s, pos + 1, Len(s)), n |-> left]

\* binary.LittleEndian.Uint64 of the bytes b: b[1] + 256*b[2] + ...
RECURSIVE Uint64LE(_)
Uint64LE(b) == IF b = <<>> THEN 0 ELSE Head(b) + 256 * Uint64LE(Tail(b))

\* binary.Read(rdr, binary.LittleEndian, &x) for x a uint64: ReadFull of 8
\* bytes, then the little-endian value.
BinaryReadU64(s, pos) ==
    LET r == ReadFull(s, pos, 8) IN
    [err |-> r.err, x |-> IF r.err = "nil" THEN Uint64LE(r.b) ELSE 0, n |-> r.n]

\* A uint64 as base-128 digits without leading zeros (least significant first).
RECURSIVE Norm(_)
Norm(x) ==
    IF x = <<>> THEN <<>>
    ELSE IF x[Len(x)] = 0 THEN Norm(SubSeq(x, 1, Len(x) - 1))
    ELSE x

MaxVarintLen64 == 10

\* binary.ReadUvarint(br): nb bytes read so far, x the value accumulated.
RECURSIVE ReadUvarintFrom(_, _, _, _)
ReadUvarintFrom(s, pos, nb, x) ==
    IF nb >= MaxVarintLen64 THEN [err |-> "overflow", x |-> Norm(x), n |-> nb]
    ELSE IF pos + nb >= Len(s)
        THEN [err |-> IF nb > 0 THEN "ErrUnexpectedEOF" ELSE "EOF", x |-> Norm(x), n |-> nb]
    ELSE LET b == s[pos + nb + 1] IN
         IF b < 128
         THEN IF nb = MaxVarintLen64 - 1 /\ b > 1
              THEN [err |-> "overflow", x |-> Norm(x), n |-> nb + 1]
              ELSE [err |-> "nil", x |-> Norm(x \o <<b>>), n |-> nb + 1]
         ELSE ReadUvarintFrom(s, pos, nb + 1, x \o <<b % 128>>)

ReadUvarint(s, pos) == ReadUvarintFrom(s, pos, 0, <<>>)

\* binary.PutUvarint(buf, x) with len(buf) = cap: the bytes stored, or a
\* run-time panic (index out of range) when the value needs more than cap.
RECURSIVE PutUvarintFrom(_, _, _)
PutUvarintFrom(cap, x, acc) ==
    IF Len(acc) >= cap THEN [panic |-> TRUE, b |-> acc]
    ELSE IF Len(x) > 1
        THEN PutUvarintFrom(cap, Tail(x), acc \o <<Head(x) + 128>>)
    ELSE [panic |-> FALSE, b |-> acc \o <<IF x = <<>> THEN 0 ELSE Head(x)>>]

PutUvarint(cap, x) == PutUvarintFrom(cap, x, <<>>)

\* sort.Search(n, f) with f(h) = (a[h] >= v): the smallest index in lo..hi
\* (0-based) at which f holds, by bisection.
RECURSIVE SearchGE(_, _, _, _)
SearchGE(a, v, lo, hi) ==
    IF lo >= hi THEN lo
    ELSE LET h == (lo + hi) \div 2 IN
         IF ~(a[h + 1] >= v) THEN SearchGE(a, v, h + 1, hi)
         ELSE SearchGE(a, v, lo, h)

-----------------------------------------------------------------------------
(* select.go: contains *)

\* contains without its final equality test
contains_noeq(a, v) == SearchGE(a, v, 0, Len(a)) < Len(a)

contains(a, v) ==
    LET pos == SearchGE(a, v, 0, Len(a)) IN
    IF pos >= Len(a) THEN FALSE ELSE a[pos + 1] = v

-----------------------------------------------------------------------------
(* select.go: getix, one step per pass of its for loop *)

\* The defer statements of a transcoder, in the order they are executed:
\* defer fid1.Close(), defer fid2.Close(), defer wtr.Close().
DeferRegistered == <<"fid1.Close", "fid2.Close", "wtr.Close">>

\* deferred calls run in the order they were registered
RunDefers_fifo(d) == d

\* When a function returns or panics its deferred calls run last
\* registered first.
RunDefers(d) == [j \in 1..Len(d) |-> d[Len(d) + 1 - j]]

\* The deferred closes of a transcoder, in the order they run:
\* wtr.Close, fid2.Close, fid1.Close.
DeferredCloses == RunDefers(DeferRegistered)

\* getix ending its loop on any read error, not only on io.EOF
getix_loop_anyerr ==
    /\ fn = "getix" /\ st = "run"
    /\ LET r == BinaryReadU64(src, rpos) IN
       /\ rpos' = rpos + r.n
       /\ IF r.err # "nil" THEN st' = "ret" /\ ix' = ix
          ELSE st' = st /\ ix' = Append(ix, contains(ids, r.x))
    /\ UNCHANGED <<fn, ids, src, i, w, out, ev>>
    /\ UNCHANGED <<pvars, bvars>>

\* binary.Read of the next key; io.EOF ends the loop and getix returns ix,
\* any other error panics, a value appends contains(ids, x) to ix.
getix_loop ==
    /\ fn = "getix" /\ st = "run"
    /\ LET r == BinaryReadU64(src, rpos) IN
       /\ rpos' = rpos + r.n
       /\ IF r.err = "EOF" THEN st' = "ret" /\ ix' = ix
          ELSE IF r.err # "nil" THEN st' = "panic" /\ ix' = ix
          ELSE st' = st /\ ix' = Append(ix, contains(ids, r.x))
    /\ UNCHANGED <<fn, ids, src, i, w, out, ev>>
    /\ UNCHANGED <<pvars, bvars>>

-----------------------------------------------------------------------------
(* select.go: dofixedwidth, one step per pass of its range loop *)

\* dofixedwidth leaving its loop on a read error instead of panicking
dofixedwidth_loop_break ==
    /\ fn = "dofixedwidth" /\ st = "run" /\ i < Len(ix)
    /\ LET r == ReadFull(src, rpos, w) IN
       /\ rpos' = rpos + r.n
       /\ IF r.err # "nil"
          THEN st' = "ret" /\ ev' = DeferredCloses /\ UNCHANGED <<i, out>>
          ELSE /\ i' = i + 1
               /\ out' = IF ix[i + 1] THEN out \o r.b ELSE out
               /\ UNCHANGED <<st, ev>>
    /\ UNCHANGED <<fn, ids, src, ix, w>>
    /\ UNCHANGED <<pvars, bvars>>

\* dofixedwidth without the "if !ii { continue }"
dofixedwidth_loop_nocontinue ==
    /\ fn = "dofixedwidth" /\ st = "run" /\ i < Len(ix)
    /\ LET r == ReadFull(src, rpos, w) IN
       /\ rpos' = rpos + r.n
       /\ IF r.err # "nil"
          THEN st' = "panic" /\ ev' = DeferredCloses /\ UNCHANGED <<i, out>>
          ELSE /\ i' = i + 1
               /\ out' = out \o r.b
               /\ UNCHANGED <<st, ev>>
    /\ UNCHANGED <<fn, ids, src, ix, w>>
    /\ UNCHANGED <<pvars, bvars>>

dofixedwidth_loop ==
    /\ fn = "dofixedwidth" /\ st = "run" /\ i < Len(ix)
    /\ LET r == ReadFull(src, rpos, w) IN
       /\ rpos' = rpos + r.n
       /\ IF r.err # "nil"
          THEN st' = "panic" /\ ev' = DeferredCloses /\ UNCHANGED <<i, out>>
          ELSE /\ i' = i + 1
               /\ out' = IF ix[i + 1] THEN out \o r.b ELSE out
               /\ UNCHANGED <<st, ev>>
    /\ UNCHANGED <<fn, ids, src, ix, w>>
    /\ UNCHANGED <<pvars, bvars>>

\* the range is exhausted: the function returns and its defers run
dofixedwidth_return ==
    /\ fn = "dofixedwidth" /\ st = "run" /\ i = Len(ix)
    /\ st' = "ret" /\ ev' = DeferredCloses
    /\ UNCHANGED <<fn, ids, src, rpos, ix, i, w, out>>
    /\ UNCHANGED <<pvars, bvars>>

-----------------------------------------------------------------------------
(* select.go: douvarint, one step per pass of its range loop *)

\* len(b) of b := make([]byte, 8)
UvarintBufLen == 8

\* douvarint without the "if !ii { continue }"
douvarint_loop_nocontinue ==
    /\ fn = "douvarint" /\ st = "run" /\ i < Len(ix)
    /\ LET r == ReadUvarint(src, rpos)
           p == PutUvarint(UvarintBufLen, r.x) IN
       /\ rpos' = rpos + r.n
       /\ IF r.err # "nil" \/ p.panic
          THEN st' = "panic" /\ ev' = DeferredCloses /\ UNCHANGED <<i, out>>
          ELSE /\ i' = i + 1
               /\ out' = out \o p.b
               /\ UNCHANGED <<st, ev>>
    /\ UNCHANGED <<fn, ids, src, ix, w>>
    /\ UNCHANGED <<pvars, bvars>>

douvarint_loop ==
    /\ fn = "douvarint" /\ st = "run" /\ i < Len(ix)
    /\ LET r == ReadUvarint(src, rpos)
           p == PutUvarint(UvarintBufLen, r.x) IN
       /\ rpos' = rpos + r.n
       /\ IF r.err # "nil" \/ (ix[i + 1] /\ p.panic)
          THEN st' = "panic" /\ ev' = DeferredCloses /\ UNCHANGED <<i, out>>
          ELSE /\ i' = i + 1
               /\ out' = IF ix[i + 1] THEN out \o p.b ELSE out
               /\ UNCHANGED <<st, ev>>
    /\ UNCHANGED <<fn, ids, src, ix, w>>
    /\ UNCHANGED <<pvars, bvars>>

douvarint_return ==
    /\ fn = "douvarint" /\ st = "run" /\ i = Len(ix)
    /\ st' = "ret" /\ ev' = DeferredCloses
    /\ UNCHANGED <<fn, ids, src, rpos, ix, i, w, out>>
    /\ UNCHANGED <<pvars, bvars>>

-----------------------------------------------------------------------------
(* The state of the part a specification does not run *)

Buckets == 0..MaxBuckets - 1

NoJob == [pc |-> "none", dtypes |-> <<>>, todo |-> {}, err |-> ""]

ProcIdle ==
    /\ idvar = "" /\ idfile = "" /\ targetdir = "" /\ sourcedir = ""
    /\ replace = FALSE /\ dirs = {} /\ muts = {} /\ files = {}
    /\ mpc = "idle" /\ NumBuckets = 0 /\ k = 0 /\ sem = 0
    /\ job = [b \in Buckets |-> NoJob]
    /\ done = FALSE /\ exitcode = -1

DataIdle ==
    /\ fn = "none" /\ ids = <<>> /\ src = <<>> /\ rpos = 0 /\ ix = <<>>
    /\ i = 0 /\ w = 0 /\ out = <<>> /\ st = "idle" /\ ev = <<>>

\* a bucket directory without dtypes.json and without column files
NoBucket == [dtypes |-> <<>>, cols |-> <<>>]

BucketIdle == sbucket = NoBucket /\ tbucket = NoBucket /\ curvn = ""

-----------------------------------------------------------------------------
(* The inputs of SpecData *)

\* config.DTsize: the record widths of the fixed-width type tags
DTsize == [uint8 |-> 1, uint16 |-> 2, uint32 |-> 4, uint64 |-> 8,
           float32 |-> 4, float64 |-> 8]

Widths == { DTsize[t] : t \in DOMAIN DTsize }

\* Identifier values and key values: small ones and one that needs two bytes.
IdVals == {1, 3, 257}
KeyVals == {0, 1, 2, 3, 257}

\* The 8 little-endian bytes of v, as the writer of the data set stores a key.
RECURSIVE LEBytes(_, _)
LEBytes(v, n) == IF n = 0 THEN <<>> ELSE <<v % 256>> \o LEBytes(v \div 256, n - 1)

\* Fixed-width record number r of width n: every byte in it differs.
FixedRec(r, n) == [j \in 1..n |-> 16 * r + j]
RecIds == {1, 2}

\* uvarint encodings of 1, 300, 2^56 - 1 (8 bytes), 2^56 (9 bytes) and
\* 2^64 - 1 (10 bytes).
UvarintRecs ==
    { <<1>>,
      <<172, 2>>,
      <<255, 255, 255, 255, 255, 255, 255, 127>>,
      <<128, 128, 128, 128, 128, 128, 128, 128, 1>>,
      <<255, 255, 255, 255, 255, 255, 255, 255, 255, 1>> }

Masks == SeqsUpTo(BOOLEAN, MaxRows)

SortedIds == { a \in SeqsUpTo(IdVals, MaxIds) : IsSorted(a) }

\* Record streams for a mask of n entries: one record fewer, as many, or one
\* more, followed or not by the truncated record cut.
Streams(recs, n, cuts) ==
    { Concat(rs) \o c :
        rs \in { q \in SeqsUpTo(recs, n + 1) : Len(q) >= n - 1 }, c \in cuts }

InitData ==
    /\ fn \in {"getix", "dofixedwidth", "douvarint"}
    /\ rpos = 0 /\ i = 0 /\ out = <<>> /\ st = "run" /\ ev = <<>>
    /\ ProcIdle
    /\ BucketIdle
    /\ \/ /\ fn = "getix"
          /\ ids \in SortedIds
          /\ \E ks \in SeqsUpTo(KeyVals, MaxRows), c \in {<<>>, <<7, 0, 0>>} :
                src = Concat([j \in 1..Len(ks) |-> LEBytes(ks[j], 8)]) \o c
          /\ ix = <<>> /\ w = 8
       \/ /\ fn = "dofixedwidth"
          /\ ids = <<>>
          /\ w \in Widths
          /\ ix \in Masks
          /\ src \in Streams({ FixedRec(r, w) : r \in RecIds }, Len(ix),
                             IF w > 1 THEN {<<>>, <<9>>} ELSE {<<>>})
       \/ /\ fn = "douvarint"
          /\ ids = <<>> /\ w = 0
          /\ ix \in Masks
          /\ src \in Streams(UvarintRecs, Len(ix), {<<>>, <<128>>})

NextData ==
    \/ getix_loop
    \/ dofixedwidth_loop
    \/ dofixedwidth_return
    \/ douvarint_loop
    \/ douvarint_return

SpecData == InitData /\ [][NextData]_vars

-----------------------------------------------------------------------------
(* select.go: getids.  A line is its sequence of characters; a uint64 is   *)
(* four 16-bit limbs, least significant first, so that the whole 64-bit    *)
(* range is exact.                                                         *)

LimbBase == 65536

DigitChar == <<"0", "1", "2", "3", "4", "5", "6", "7", "8", "9">>

IsDigit(c) == \E d \in 1..10 : DigitChar[d] = c

DigitVal(c) == (CHOOSE d \in 1..10 : DigitChar[d] = c) - 1

\* the characters of a decimal literal given by its digits
D(ds) == [j \in 1..Len(ds) |-> DigitChar[ds[j] + 1]]

U64(n) == <<n % LimbBase, n \div LimbBase, 0, 0>>

\* x * 10 + d in 64 bits, and whether the true result needs more
MulAdd10(x, d) ==
    LET l1 == x[1] * 10 + d
        l2 == x[2] * 10 + l1 \div LimbBase
        l3 == x[3] * 10 + l2 \div LimbBase
        l4 == x[4] * 10 + l3 \div LimbBase
    IN [v |-> <<l1 % LimbBase, l2 % LimbBase, l3 % LimbBase, l4 % LimbBase>>,
        ovf |-> l4 >= LimbBase]

\* a < b for uint64 (Sl64.Less)
U64Less(a, b) ==
    \E p \in 1..4 : a[p] < b[p] /\ \A q \in p + 1..4 : a[q] = b[q]

\* -x in 64 bits (two's complement)
U64Neg(x) ==
    LET l1 == (LimbBase - 1 - x[1]) + 1
        l2 == (LimbBase - 1 - x[2]) + l1 \div LimbBase
        l3 == (LimbBase - 1 - x[3]) + l2 \div LimbBase
        l4 == (LimbBase - 1 - x[4]) + l3 \div LimbBase
    IN <<l1 % LimbBase, l2 % LimbBase, l3 % LimbBase, l4 % LimbBase>>

\* the magnitude of a run of characters read as decimal digits from
\* position pos on, acc being the value so far: a character that is not a
\* digit is a syntax error, a value of 2^64 or more a range error
RECURSIVE ParseMag(_, _, _)
ParseMag(s, pos, acc) ==
    IF pos > Len(s) THEN [err |-> "nil", v |-> acc]
    ELSE IF ~IsDigit(s[pos]) THEN [err |-> "syntax", v |-> acc]
    ELSE LET r == MulAdd10(acc, DigitVal(s[pos])) IN
         IF r.ovf THEN [err |-> "range", v |-> acc]
         ELSE ParseMag(s, pos + 1, r.v)

\* strconv.Atoi(s) where int is 64 bits wide: an optional sign, then at
\* least one digit and digits only, the value within -2^63 .. 2^63-1.
\* The int is given as its sign and magnitude.
Atoi(s) ==
    LET signed == s # <<>> /\ s[1] \in {"+", "-"}
        neg == s # <<>> /\ s[1] = "-"
        rest == IF signed THEN Tail(s) ELSE s
        m == ParseMag(rest, 1, U64(0))
        top == LimbBase \div 2
        big == IF neg
               THEN m.v[4] > top
                    \/ (m.v[4] = top /\ <<m.v[1], m.v[2], m.v[3]>> # <<0, 0, 0>>)
               ELSE m.v[4] >= top
    IN IF rest = <<>> THEN [err |-> "syntax", neg |-> FALSE, mag |-> U64(0)]
       ELSE IF m.err # "nil" THEN [err |-> m.err, neg |-> FALSE, mag |-> U64(0)]
       ELSE IF big THEN [err |-> "range", neg |-> FALSE, mag |-> U64(0)]
       ELSE [err |-> "nil", neg |-> neg, mag |-> m.v]

\* uint64(id) of an int: the same 64 bits read as unsigned
ToUint64(id) == IF id.neg THEN U64Neg(id.mag) ELSE id.mag

\* ids left as appended
SortU64_none(a) == a

RECURSIVE InsertU64(_, _)
InsertU64(x, a) ==
    IF a = <<>> THEN <<x>>
    ELSE IF U64Less(x, Head(a)) THEN <<x>> \o a
    ELSE <<Head(a)>> \o InsertU64(x, Tail(a))

\* sort.Sort(Sl64(ids)): ids in ascending order
RECURSIVE SortU64(_)
SortU64(a) == IF a = <<>> THEN <<>> ELSE InsertU64(Head(a), SortU64(Tail(a)))

IsSortedU64(a) == \A p \in 1..Len(a) - 1 : ~U64Less(a[p + 1], a[p])

\* one pass of the scanner loop: the line is parsed and appended, or panics
getids_scan ==
    /\ fn = "getids" /\ st = "run" /\ rpos < Len(src)
    /\ LET id == Atoi(src[rpos + 1]) IN
       IF id.err # "nil"
       THEN st' = "panic" /\ UNCHANGED <<ids, rpos>>
       ELSE /\ ids' = Append(ids, ToUint64(id))
            /\ rpos' = rpos + 1
            /\ st' = st
    /\ UNCHANGED <<fn, src, ix, i, w, out, ev>>
    /\ UNCHANGED <<pvars, bvars>>

\* the scanner is at the end of the file: sort and return
getids_sort ==
    /\ fn = "getids" /\ st = "run" /\ rpos = Len(src)
    /\ ids' = SortU64(ids)
    /\ st' = "ret"
    /\ UNCHANGED <<fn, src, rpos, ix, i, w, out, ev>>
    /\ UNCHANGED <<pvars, bvars>>

\* the whole scanner loop on the lines of a file
RECURSIVE ScanIds(_, _)
ScanIds(lines, acc) ==
    IF lines = <<>> THEN [err |-> "nil", ids |-> acc]
    ELSE LET id == Atoi(Head(lines)) IN
         IF id.err # "nil" THEN [err |-> id.err, ids |-> acc]
         ELSE ScanIds(Tail(lines), Append(acc, ToUint64(id)))

\* lines of an identifier file: 7, 12, the empty line, -1, x, +5,
\* 2^63 - 1, 2^63, 2^64 - 1, 2^64
IdLines ==
    { D(<<7>>), D(<<1, 2>>), <<>>, <<"-">> \o D(<<1>>), <<"x">>,
      <<"+">> \o D(<<5>>),
      D(<<9, 2, 2, 3, 3, 7, 2, 0, 3, 6, 8, 5, 4, 7, 7, 5, 8, 0, 7>>),
      D(<<9, 2, 2, 3, 3, 7, 2, 0, 3, 6, 8, 5, 4, 7, 7, 5, 8, 0, 8>>),
      D(<<1, 8, 4, 4, 6, 7, 4, 4, 0, 7, 3, 7, 0, 9, 5, 5, 1, 6, 1, 5>>),
      D(<<1, 8, 4, 4, 6, 7, 4, 4, 0, 7, 3, 7, 0, 9, 5, 5, 1, 6, 1, 6>>) }

InitIds ==
    /\ fn = "getids"
    /\ src \in SeqsUpTo(IdLines, MaxLines)
    /\ ids = <<>> /\ rpos = 0 /\ st = "run"
    /\ ix = <<>> /\ i = 0 /\ w = 0 /\ out = <<>> /\ ev = <<>>
    /\ ProcIdle
    /\ BucketIdle

NextIds ==
    \/ getids_scan
    \/ getids_sort

SpecIds == InitIds /\ [][NextIds]_vars

\* the identifier files the process is run with: the lines 3, 1 and the
\* lines 1, x
IdFiles == { <<D(<<3>>), D(<<1>>)>>, <<D(<<1>>), <<"x">>>> }

-----------------------------------------------------------------------------
(* select.go: main up to the dispatch loop *)

Running == exitcode = -1

\* os.Stat(d) succeeds when d exists; check() runs before main creates any
\* directory.
Exists(d) == d \in dirs

\* os.SameFile(ts, ss): false when either FileInfo is nil (its Stat failed).
SameFile(tsOK, ssOK) == tsOK /\ ssOK /\ targetdir = sourcedir

\* flag.Parse and the test of the four required flags
main_flags ==
    /\ Running /\ mpc = "flags"
    /\ IF idvar = "" \/ idfile = "" \/ targetdir = "" \/ sourcedir = ""
       THEN exitcode' = 1 /\ mpc' = mpc
       ELSE exitcode' = exitcode /\ mpc' = "check"
    /\ UNCHANGED <<idvar, idfile, targetdir, sourcedir, replace, dirs, muts,
                   files, NumBuckets, k, sem, job, done>>
    /\ UNCHANGED <<dvars, bvars>>

\* check() with the test of replace inverted
check_inverted ==
    /\ Running /\ mpc = "check"
    /\ IF replace /\ Exists(targetdir)
       THEN exitcode' = 1 /\ mpc' = mpc
       ELSE exitcode' = exitcode /\ mpc' = "setupLogger"
    /\ UNCHANGED <<idvar, idfile, targetdir, sourcedir, replace, dirs, muts,
                   files, NumBuckets, k, sem, job, done>>
    /\ UNCHANGED <<dvars, bvars>>

\* check(): exit 1 when !replace and the target exists; the same-file test
\* runs only when Stat fails for the target and for the source.
check ==
    /\ Running /\ mpc = "check"
    /\ IF ~replace /\ Exists(targetdir)
       THEN exitcode' = 1 /\ mpc' = mpc
       ELSE IF ~Exists(targetdir) /\ ~Exists(sourcedir)
               /\ SameFile(Exists(targetdir), Exists(sourcedir))
       THEN exitcode' = 1 /\ mpc' = mpc
       ELSE exitcode' = exitcode /\ mpc' = "setupLogger"
    /\ UNCHANGED <<idvar, idfile, targetdir, sourcedir, replace, dirs, muts,
                   files, NumBuckets, k, sem, job, done>>
    /\ UNCHANGED <<dvars, bvars>>

\* setupLogger() creates select.log; os.MkdirAll(targetdir)
setupLogger ==
    /\ Running /\ mpc = "setupLogger"
    /\ muts' = muts \cup {"select.log"}
    /\ mpc' = "MkdirAll"
    /\ UNCHANGED <<idvar, idfile, targetdir, sourcedir, replace, dirs,
                   files, NumBuckets, k, sem, job, done, exitcode>>
    /\ UNCHANGED <<dvars, bvars>>

main_MkdirAll ==
    /\ Running /\ mpc = "MkdirAll"
    /\ muts' = muts \cup {"targetdir"}
    /\ mpc' = "GetConfig"
    /\ UNCHANGED <<idvar, idfile, targetdir, sourcedir, replace, dirs,
                   files, NumBuckets, k, sem, job, done, exitcode>>
    /\ UNCHANGED <<dvars, bvars>>

\* config.GetConfig(sourcedir) panics when conf.json cannot be opened (here:
\* the source directory did not exist at the start) or does not decode.
GetConfig ==
    /\ Running /\ mpc = "GetConfig"
    /\ \/ /\ exitcode' = 2
          /\ UNCHANGED <<mpc, NumBuckets>>
       \/ /\ sourcedir \in dirs
          /\ \E n \in 0..MaxBuckets : NumBuckets' = n
          /\ mpc' = "WriteConfig" /\ exitcode' = exitcode
    /\ UNCHANGED <<idvar, idfile, targetdir, sourcedir, replace, dirs, muts,
                   files, k, sem, job, done>>
    /\ UNCHANGED <<dvars, bvars>>

\* config.WriteConfig(targetdir, &tconf); sem = make(chan bool, concurrency)
WriteConfig ==
    /\ Running /\ mpc = "WriteConfig"
    /\ muts' = muts \cup {"conf.json"}
    /\ sem' = 0
    /\ mpc' = "copycodes"
    /\ UNCHANGED <<idvar, idfile, targetdir, sourcedir, replace, dirs,
                   files, NumBuckets, k, job, done, exitcode>>
    /\ UNCHANGED <<dvars, bvars>>

copycodes ==
    /\ Running /\ mpc = "copycodes"
    /\ muts' = muts \cup {"Codes"}
    /\ mpc' = "getids"
    /\ UNCHANGED <<idvar, idfile, targetdir, sourcedir, replace, dirs,
                   files, NumBuckets, k, sem, job, done, exitcode>>
    /\ UNCHANGED <<dvars, bvars>>

\* getids(idfile): panics on a line that does not parse, else leaves ids
\* holding the values of the lines, sorted
getids ==
    /\ Running /\ mpc = "getids"
    /\ \E lines \in IdFiles :
          LET r == ScanIds(lines, ids) IN
          IF r.err = "nil"
          THEN ids' = SortU64(r.ids) /\ mpc' = "setupTargetDir"
               /\ exitcode' = exitcode
          ELSE ids' = r.ids /\ exitcode' = 2 /\ mpc' = mpc
    /\ UNCHANGED <<idvar, idfile, targetdir, sourcedir, replace, dirs, muts,
                   files, NumBuckets, k, sem, job, done>>
    /\ UNCHANGED <<fn, src, rpos, ix, i, w, out, st, ev>>
    /\ UNCHANGED bvars

setupTargetDir ==
    /\ Running /\ mpc = "setupTargetDir"
    /\ muts' = muts \cup {"Buckets"}
    /\ k' = 0
    /\ mpc' = IF NumBuckets > 0 THEN "acquire" ELSE "drain"
    /\ UNCHANGED <<idvar, idfile, targetdir, sourcedir, replace, dirs,
                   files, NumBuckets, sem, job, done, exitcode>>
    /\ UNCHANGED <<dvars, bvars>>

-----------------------------------------------------------------------------
(* select.go: main's dispatch loop, drain loop and end *)

\* the dispatch loop launching without waiting for a free slot
main_acquire_noblock ==
    /\ Running /\ mpc = "acquire"
    /\ sem' = IF sem < concurrency THEN sem + 1 ELSE sem
    /\ mpc' = "go"
    /\ UNCHANGED <<idvar, idfile, targetdir, sourcedir, replace, dirs, muts,
                   files, NumBuckets, k, job, done, exitcode>>
    /\ UNCHANGED <<dvars, bvars>>

\* sem <- true in the dispatch loop: blocks while the buffer is full
main_acquire ==
    /\ Running /\ mpc = "acquire"
    /\ sem < concurrency
    /\ sem' = sem + 1
    /\ mpc' = "go"
    /\ UNCHANGED <<idvar, idfile, targetdir, sourcedir, replace, dirs, muts,
                   files, NumBuckets, k, job, done, exitcode>>
    /\ UNCHANGED <<dvars, bvars>>

\* go dobucket(k); k++
main_go ==
    /\ Running /\ mpc = "go"
    /\ job' = [job EXCEPT ![k].pc = "ReadDtypes"]
    /\ k' = IF k + 1 < NumBuckets THEN k + 1 ELSE 0
    /\ mpc' = IF k + 1 < NumBuckets THEN "acquire" ELSE "drain"
    /\ UNCHANGED <<idvar, idfile, targetdir, sourcedir, replace, dirs, muts,
                   files, NumBuckets, sem, done, exitcode>>
    /\ UNCHANGED <<dvars, bvars>>

\* for k := 0; k < concurrency; k++ { sem <- true }, then the completion record
main_drain ==
    /\ Running /\ mpc = "drain"
    /\ IF k < concurrency
       THEN /\ sem < concurrency
            /\ sem' = sem + 1 /\ k' = k + 1
            /\ UNCHANGED <<mpc, done>>
       ELSE /\ done' = TRUE /\ mpc' = "return"
            /\ UNCHANGED <<sem, k>>
    /\ UNCHANGED <<idvar, idfile, targetdir, sourcedir, replace, dirs, muts,
                   files, NumBuckets, job, exitcode>>
    /\ UNCHANGED <<dvars, bvars>>

\* main returns and the process exits with status 0.  When a goroutine is in
\* a panic at that time, which of the two ends the process depends on the Go
\* runtime and on timing (main's exit waits only once the runtime has
\* recorded the panic), so both orders are possible here.
main_return ==
    /\ Running /\ mpc = "return"
    /\ exitcode' = 0
    /\ UNCHANGED <<idvar, idfile, targetdir, sourcedir, replace, dirs, muts,
                   files, mpc, NumBuckets, k, sem, job, done>>
    /\ UNCHANGED <<dvars, bvars>>

-----------------------------------------------------------------------------
(* select.go: dobucket, one goroutine per bucket *)

\* The dtypes.json documents a bucket may hold (column name -> type tag).
DtypesDocs ==
    { [a |-> "uvarint"],
      [a |-> "uint32", b |-> "varint"] }

\* A panic in goroutine b: its deferred func() { <-sem }() runs, then the
\* runtime goes on to print the panic and end the process (fatalpanic).
Panic(b, e) ==
    /\ job' = [job EXCEPT ![b].pc = "dying", ![b].err = e]
    /\ sem' = sem - 1

\* dtypes := config.ReadDtypes(bn, sourcedir): panics when dtypes.json is
\* missing or does not decode
dobucket_ReadDtypes(b) ==
    /\ Running /\ job[b].pc = "ReadDtypes"
    /\ \/ Panic(b, "dtypes")
       \/ \E doc \in DtypesDocs :
             /\ job' = [job EXCEPT ![b].pc = "writedtypes",
                                   ![b].dtypes = doc,
                                   ![b].todo = DOMAIN doc]
             /\ sem' = sem
    /\ UNCHANGED <<idvar, idfile, targetdir, sourcedir, replace, dirs, muts,
                   files, mpc, NumBuckets, k, done, exitcode>>
    /\ UNCHANGED <<dvars, bvars>>

\* writedtypes(dtypes, bn) creates dtypes.json in the target bucket
dobucket_writedtypes(b) ==
    /\ Running /\ job[b].pc = "writedtypes"
    /\ files' = files \cup {<<b, "dtypes.json">>}
    /\ job' = [job EXCEPT ![b].pc = "getix"]
    /\ UNCHANGED <<idvar, idfile, targetdir, sourcedir, replace, dirs, muts,
                   mpc, NumBuckets, k, sem, done, exitcode>>
    /\ UNCHANGED <<dvars, bvars>>

\* ix := getix(bn): returns the mask, or panics on a stream error
dobucket_getix(b) ==
    /\ Running /\ job[b].pc = "getix"
    /\ \E ok \in BOOLEAN :
          IF ok THEN job' = [job EXCEPT ![b].pc = "columns"] /\ sem' = sem
          ELSE Panic(b, "stream")
    /\ UNCHANGED <<idvar, idfile, targetdir, sourcedir, replace, dirs, muts,
                   files, mpc, NumBuckets, k, done, exitcode>>
    /\ UNCHANGED <<dvars, bvars>>

\* One pass of for vn, dt := range dtypes; the map is visited in any order.
\* douvarint and dofixedwidth create the column file (getwriter) and then
\* return, or panic on a stream error; varint panics before any call.
dobucket_column(b) ==
    /\ Running /\ job[b].pc = "columns"
    /\ \E vn \in job[b].todo :
          LET dt == job[b].dtypes[vn]
              rest == job[b].todo \ {vn} IN
          IF dt = "varint"
          THEN Panic(b, "varint") /\ files' = files
          ELSE /\ files' = files \cup {<<b, vn>>}
               /\ \E ok \in BOOLEAN :
                     IF ok
                     THEN /\ job' = [job EXCEPT
                                        ![b].todo = rest,
                                        ![b].pc = IF rest = {} THEN "return"
                                                  ELSE "columns"]
                          /\ sem' = sem
                     ELSE Panic(b, "stream")
    /\ UNCHANGED <<idvar, idfile, targetdir, sourcedir, replace, dirs, muts,
                   mpc, NumBuckets, k, done, exitcode>>
    /\ UNCHANGED <<dvars, bvars>>

\* dobucket without its deferred func() { <-sem }()
dobucket_return_norelease(b) ==
    /\ Running /\ job[b].pc = "return"
    /\ job' = [job EXCEPT ![b].pc = "exit"]
    /\ UNCHANGED <<idvar, idfile, targetdir, sourcedir, replace, dirs, muts,
                   files, mpc, NumBuckets, k, sem, done, exitcode>>
    /\ UNCHANGED <<dvars, bvars>>

\* dobucket returns: the deferred func() { <-sem }() frees the slot
dobucket_return(b) ==
    /\ Running /\ job[b].pc = "return"
    /\ sem' = sem - 1
    /\ job' = [job EXCEPT ![b].pc = "exit"]
    /\ UNCHANGED <<idvar, idfile, targetdir, sourcedir, replace, dirs, muts,
                   files, mpc, NumBuckets, k, done, exitcode>>
    /\ UNCHANGED <<dvars, bvars>>

\* the runtime ends the process after an unrecovered panic: exit status 2
fatalpanic(b) ==
    /\ Running /\ job[b].pc = "dying"
    /\ exitcode' = 2
    /\ UNCHANGED <<idvar, idfile, targetdir, sourcedir, replace, dirs, muts,
                   files, mpc, NumBuckets, k, sem, job, done>>
    /\ UNCHANGED <<dvars, bvars>>

-----------------------------------------------------------------------------
(* The process *)

Init ==
    /\ idvar \in {"", "id"}
    /\ idfile \in {"", "ids.txt"}
    /\ targetdir \in {"", "src", "tgt"}
    /\ sourcedir \in {"", "src"}
    /\ replace \in BOOLEAN
    /\ dirs \in SUBSET ({targetdir, sourcedir} \ {""})
    /\ muts = {} /\ files = {}
    /\ mpc = "flags" /\ NumBuckets = 0 /\ k = 0 /\ sem = 0
    /\ job = [b \in Buckets |-> NoJob]
    /\ done = FALSE /\ exitcode = -1
    /\ DataIdle
    /\ BucketIdle

Next ==
    \/ main_flags
    \/ check
    \/ setupLogger
    \/ main_MkdirAll
    \/ GetConfig
    \/ WriteConfig
    \/ copycodes
    \/ getids
    \/ setupTargetDir
    \/ main_acquire
    \/ main_go
    \/ main_drain
    \/ main_return
    \/ \E b \in Buckets :
          \/ dobucket_ReadDtypes(b)
          \/ dobucket_writedtypes(b)
          \/ dobucket_getix(b)
          \/ dobucket_column(b)
          \/ dobucket_return(b)
          \/ fatalpanic(b)

Spec == Init /\ [][Next]_vars

\* the steps of main's goroutine
MainNext ==
    \/ main_flags
    \/ check
    \/ setupLogger
    \/ main_MkdirAll
    \/ GetConfig
    \/ WriteConfig
    \/ copycodes
    \/ getids
    \/ setupTargetDir
    \/ main_acquire
    \/ main_go
    \/ main_drain
    \/ main_return

\* the steps of the goroutine of bucket b, and the runtime ending the process
\* after its panic
JobNext(b) ==
    \/ dobucket_ReadDtypes(b)
    \/ dobucket_writedtypes(b)
    \/ dobucket_getix(b)
    \/ dobucket_column(b)
    \/ dobucket_return(b)
    \/ fatalpanic(b)

\* The process under the Go scheduler: a goroutine that can take a step
\* (is runnable, not blocked on sem) is eventually run.
\* the process started with every flag given, an existing source directory
\* and no target directory yet: the preflight passes and main goes on to the
\* dispatch loop
InitFair ==
    /\ Init
    /\ idvar = "id" /\ idfile = "ids.txt"
    /\ targetdir = "tgt" /\ sourcedir = "src"
    /\ replace = FALSE /\ dirs = {"src"}

SpecFair ==
    /\ InitFair /\ [][Next]_vars
    /\ WF_vars(MainNext)
    /\ \A b \in Buckets : WF_vars(JobNext(b))

-----------------------------------------------------------------------------
(* select.go: dobucket on the streams of one bucket.  The goroutine's       *)
(* position is job[b] as in Spec; getix and the transcoders are called and  *)
(* run step by step on the column streams of sbucket.                       *)

\* w := config.DTsize[dt]: indexing the map with a tag it does not hold
\* yields the zero value
DTsizeOf(dt) == IF dt \in DOMAIN DTsize THEN DTsize[dt] ELSE 0

\* the type tags the key column and the other column are declared with;
\* int64 is a tag DTsize does not hold
KeyTags == {"uint64", "uint32"}

DataTags == {"uint16", "float64", "uvarint", "varint", "int64"}

\* the name of the column that is not the key column
DataCol == "x"

BucketIds == {<<>>, <<1>>}

\* The key columns of r records of a fixed-width tag dt with keys 1 and 2.
\* getix reads the column eight bytes at a time, so with a narrower tag only
\* the first record of each eight bytes holds a key and the others are 0:
\* what getix decodes stays a small integer.
KeyColumns(dt, r) ==
    { Concat([j \in 1..r |->
                 LEBytes(IF (j - 1) % (8 \div DTsize[dt]) = 0 THEN ks[j] ELSE 0,
                         DTsize[dt])]) :
        ks \in [1..r -> {1, 2}] }

\* a column of r records of tag dt: records of DTsize[dt] bytes, of one or
\* two bytes for the variable-width tags, of eight bytes for int64
DataColumn(dt, r) ==
    IF dt \in {"uvarint", "varint"}
    THEN Concat([j \in 1..r |-> IF j % 2 = 1 THEN <<j>> ELSE <<172, 2>>])
    ELSE Concat([j \in 1..r |->
                    FixedRec(j, IF dt \in DOMAIN DTsize THEN DTsize[dt] ELSE 8)])

\* dtypes := config.ReadDtypes(bn, sourcedir), dtypes.json being well formed
ReadDtypes_call(b) ==
    /\ Running /\ job[b].pc = "ReadDtypes"
    /\ job' = [job EXCEPT ![b].pc = "writedtypes",
                          ![b].dtypes = sbucket.dtypes,
                          ![b].todo = DOMAIN sbucket.dtypes]
    /\ UNCHANGED <<idvar, idfile, targetdir, sourcedir, replace, dirs, muts,
                   files, mpc, NumBuckets, k, sem, done, exitcode>>
    /\ UNCHANGED <<dvars, bvars>>

\* writedtypes(dtypes, bn): the map is encoded into the target's dtypes.json
writedtypes_call(b) ==
    /\ Running /\ job[b].pc = "writedtypes"
    /\ tbucket' = [tbucket EXCEPT !.dtypes = job[b].dtypes]
    /\ files' = files \cup {<<b, "dtypes.json">>}
    /\ job' = [job EXCEPT ![b].pc = "getix"]
    /\ UNCHANGED <<idvar, idfile, targetdir, sourcedir, replace, dirs, muts,
                   mpc, NumBuckets, k, sem, done, exitcode>>
    /\ UNCHANGED <<sbucket, curvn>>
    /\ UNCHANGED dvars

\* ix := getix(bn) is entered: the reader of the key column is opened
getix_call(b) ==
    /\ Running /\ job[b].pc = "getix" /\ fn = "none"
    /\ fn' = "getix" /\ st' = "run"
    /\ src' = sbucket.cols[idvar]
    /\ rpos' = 0 /\ ix' = <<>> /\ w' = 8
    /\ UNCHANGED <<ids, i, out, ev>>
    /\ UNCHANGED <<pvars, bvars>>

\* getix has returned ix, or its panic goes on in dobucket
getix_return(b) ==
    /\ Running /\ job[b].pc = "getix" /\ fn = "getix"
    /\ st \in {"ret", "panic"}
    /\ IF st = "ret"
       THEN job' = [job EXCEPT ![b].pc = "columns"] /\ sem' = sem
       ELSE Panic(b, "stream")
    /\ fn' = "none" /\ st' = "idle"
    /\ UNCHANGED <<ids, src, rpos, ix, i, w, out, ev>>
    /\ UNCHANGED <<idvar, idfile, targetdir, sourcedir, replace, dirs, muts,
                   files, mpc, NumBuckets, k, done, exitcode>>
    /\ UNCHANGED bvars

\* One pass of for vn, dt := range dtypes is entered (the map is visited in
\* any order): varint panics; else douvarint or dofixedwidth is called with
\* ix, and with w := config.DTsize[dt] for dofixedwidth, and opens its reader
\* and creates its output file (getreader, getwriter).
column_call(b) ==
    /\ Running /\ job[b].pc = "columns" /\ fn = "none"
    /\ \E v \in job[b].todo :
          LET dt == job[b].dtypes[v] IN
          IF dt = "varint"
          THEN /\ Panic(b, "varint")
               /\ UNCHANGED <<files, tbucket, curvn>>
               /\ UNCHANGED <<fn, src, rpos, i, w, out, st, ev>>
          ELSE /\ fn' = IF dt = "uvarint" THEN "douvarint" ELSE "dofixedwidth"
               /\ w' = IF dt = "uvarint" THEN 0 ELSE DTsizeOf(dt)
               /\ src' = sbucket.cols[v]
               /\ rpos' = 0 /\ i' = 0 /\ out' = <<>> /\ st' = "run"
               /\ ev' = <<>>
               /\ curvn' = v
               /\ tbucket' = [tbucket EXCEPT !.cols = (v :> <<>>) @@ tbucket.cols]
               /\ files' = files \cup {<<b, v>>}
               /\ UNCHANGED <<job, sem>>
    /\ UNCHANGED <<ids, ix, sbucket>>
    /\ UNCHANGED <<idvar, idfile, targetdir, sourcedir, replace, dirs, muts,
                   mpc, NumBuckets, k, done, exitcode>>

\* The transcoder has returned or panicked; its deferred closes have flushed
\* what it wrote into the column file.  After a return the range loop goes on.
column_return(b) ==
    /\ Running /\ job[b].pc = "columns"
    /\ fn \in {"dofixedwidth", "douvarint"} /\ st \in {"ret", "panic"}
    /\ tbucket' = [tbucket EXCEPT !.cols[curvn] = out]
    /\ IF st = "ret"
       THEN LET rest == job[b].todo \ {curvn} IN
            /\ job' = [job EXCEPT ![b].todo = rest,
                                  ![b].pc = IF rest = {} THEN "return"
                                            ELSE "columns"]
            /\ sem' = sem
       ELSE Panic(b, "stream")
    /\ fn' = "none" /\ st' = "idle"
    /\ UNCHANGED <<ids, src, rpos, ix, i, w, out, ev>>
    /\ UNCHANGED <<idvar, idfile, targetdir, sourcedir, replace, dirs, muts,
                   files, mpc, NumBuckets, k, done, exitcode>>
    /\ UNCHANGED <<sbucket, curvn>>

\* dobucket(0) has been launched on a bucket of r rows whose dtypes.json
\* names the key column and one more column; main holds the job's slot.
InitBucket ==
    /\ idvar = "id" /\ idfile = "" /\ targetdir = "" /\ sourcedir = ""
    /\ replace = FALSE /\ dirs = {} /\ muts = {} /\ files = {}
    /\ mpc = "idle" /\ NumBuckets = 1 /\ k = 0 /\ sem = 1
    /\ job = [b \in Buckets |->
                IF b = 0 THEN [NoJob EXCEPT !.pc = "ReadDtypes"] ELSE NoJob]
    /\ done = FALSE /\ exitcode = -1
    /\ fn = "none" /\ src = <<>> /\ rpos = 0 /\ ix = <<>>
    /\ i = 0 /\ w = 0 /\ out = <<>> /\ st = "idle" /\ ev = <<>>
    /\ ids \in BucketIds
    /\ \E r \in 0..MaxRows, kt \in KeyTags, dt \in DataTags :
          \E kc \in KeyColumns(kt, r) :
             sbucket = [dtypes |-> (idvar :> kt) @@ (DataCol :> dt),
                        cols |-> (idvar :> kc) @@ (DataCol :> DataColumn(dt, r))]
    /\ tbucket = NoBucket /\ curvn = ""

NextBucket ==
    \/ ReadDtypes_call(0)
    \/ writedtypes_call(0)
    \/ getix_call(0)
    \/ getix_loop
    \/ getix_return(0)
    \/ column_call(0)
    \/ dofixedwidth_loop
    \/ dofixedwidth_return
    \/ douvarint_loop
    \/ douvarint_return
    \/ column_return(0)
    \/ dobucket_return(0)

SpecBucket == InitBucket /\ [][NextBucket]_vars

-----------------------------------------------------------------------------
(* Claims C1 .. C10 *)

\* the positions of a mask that are true, ascending
TrueIdx(m) == SelectSeq([j \in 1..Len(m) |-> j], LAMBDA j : m[j])

\* record number j (from 1) of a stream of n-byte records
RecordAt(s, j, n) == SubSeq(s, (j - 1) * n + 1, j * n)

\* the values of a uvarint stream, and whether it decodes to its end
RECURSIVE UvarintValues(_, _)
UvarintValues(s, pos) ==
    IF pos >= Len(s) THEN [ok |-> TRUE, v |-> <<>>]
    ELSE LET r == ReadUvarint(s, pos) IN
         IF r.err # "nil" THEN [ok |-> FALSE, v |-> <<>>]
         ELSE LET t == UvarintValues(s, pos + r.n) IN
              [ok |-> t.ok, v |-> <<r.x>> \o t.v]

\* C1: dofixedwidth, for a width in {1,2,4,8} and a stream of exactly len(ix)
\* records, does not fail, and when it has returned the output is the input
\* records at the true positions of ix, in order, byte for byte; so it holds
\* as many records as ix has true entries.
C1_FixedWidthSelects ==
    (fn = "dofixedwidth" /\ w \in {1, 2, 4, 8} /\ Len(src) = Len(ix) * w) =>
        /\ st # "panic"
        /\ st = "ret" =>
              /\ out = Concat([j \in 1..Len(TrueIdx(ix)) |->
                                  RecordAt(src, TrueIdx(ix)[j], w)])
              /\ Len(out) = w * Cardinality({j \in 1..Len(ix) : ix[j]})

C1_Witness ==
    /\ fn = "dofixedwidth" /\ st = "ret" /\ w = 8
    /\ ix = <<TRUE, FALSE, TRUE>> /\ Len(src) = 24
    /\ RecordAt(src, 1, 8) # RecordAt(src, 3, 8)
    /\ Len(out) = 16

\* C2: douvarint, for a stream of exactly len(ix) uvarint values (any uint64,
\* also one whose encoding takes 9 or 10 bytes), does not fail, and when it
\* has returned the output decodes to the input values at the true positions.
C2_UvarintSelects ==
    LET inp == UvarintValues(src, 0) IN
    (fn = "douvarint" /\ inp.ok /\ Len(inp.v) = Len(ix)) =>
        /\ st # "panic"
        /\ st = "ret" =>
              LET res == UvarintValues(out, 0) IN
              /\ res.ok
              /\ res.v = [j \in 1..Len(TrueIdx(ix)) |-> inp.v[TrueIdx(ix)[j]]]

\* C3: at most concurrency jobs are running (launched, slot not yet released).
RunningJobs ==
    { b \in Buckets :
        job[b].pc \in {"ReadDtypes", "writedtypes", "getix", "columns", "return"} }

C3_ConcurrencyBound == Cardinality(RunningJobs) <= concurrency

\* all slots taken by running jobs while main waits to launch another bucket
C3_Witness ==
    /\ Cardinality(RunningJobs) = concurrency
    /\ mpc = "acquire" /\ k < NumBuckets /\ sem = concurrency

\* C4: once "Done, exiting" is logged, each of the NumBuckets jobs has been
\* launched and has run its whole body.
C4_DoneAfterAllJobs ==
    done => \A b \in 0..NumBuckets - 1 : job[b].pc = "exit"

\* C5: once a job has panicked, the completion record is not logged and the
\* process does not exit with status 0.
C5_PanicAborts ==
    (\E b \in Buckets : job[b].pc = "dying") => (~done /\ exitcode # 0)

\* C6: for the sorted ids and every value v, contains(ids, v) is true exactly
\* when some element of ids equals v (false for empty ids and for v above all).
C6_ContainsIsMembership ==
    (fn = "getix" /\ IsSorted(ids)) =>
        \A v \in KeyVals \cup IdVals :
            contains(ids, v) <=> (\E p \in 1..Len(ids) : ids[p] = v)

\* ids with a duplicate, searched for values below, between, equal and above
C6_Witness ==
    /\ fn = "getix" /\ st = "ret"
    /\ ids = <<1, 3, 3>>
    /\ ix = <<FALSE, TRUE, FALSE>>
    /\ Uint64LE(RecordAt(src, 1, 8)) = 0
    /\ Uint64LE(RecordAt(src, 3, 8)) = 257

\* C7: getix on a key stream of R complete 8-byte records: the mask never
\* holds more than R entries, entry j is contains(ids, key j); it returns
\* only at a clean end of stream, with exactly R entries, and a truncated
\* trailing record makes it panic.
C7_MaskMatchesKeys ==
    fn = "getix" =>
        LET R == Len(src) \div 8 IN
        /\ Len(ix) <= R
        /\ \A j \in 1..Len(ix) :
              ix[j] = contains(ids, Uint64LE(RecordAt(src, j, 8)))
        /\ st = "ret" => (Len(ix) = R /\ Len(src) = 8 * R)
        /\ st = "panic" => (Len(ix) = R /\ Len(src) > 8 * R)

C7_Witness ==
    /\ fn = "getix" /\ st = "ret" /\ Len(src) = 24
    /\ ix = <<TRUE, FALSE, TRUE>>

\* C8: a job whose type metadata holds a varint column never returns, and
\* when it raises the unsupported-type error no column file of its bucket
\* has been created in the target.
C8_VarintNoPartialOutput ==
    \A b \in Buckets :
        (\E c \in DOMAIN job[b].dtypes : job[b].dtypes[c] = "varint") =>
            /\ job[b].pc \notin {"return", "exit"}
            /\ job[b].err = "varint" =>
                  \A c \in DOMAIN job[b].dtypes : <<b, c>> \notin files

\* C9: with all flags given and the target the same location as the source,
\* the run is rejected in the preflight: nothing is created or overwritten
\* and the process does not end with status 0.
C9_SameLocationRejected ==
    (idvar # "" /\ idfile # "" /\ targetdir # "" /\ targetdir = sourcedir) =>
        /\ muts = {} /\ files = {}
        /\ mpc \in {"flags", "check"}
        /\ exitcode # 0

\* C10: with a required flag empty, or the target existing and replace false,
\* the process goes on to exit with status 1 from the preflight and nothing
\* has been created or overwritten.
C10_PreflightNoMutation ==
    (idvar = "" \/ idfile = "" \/ targetdir = "" \/ sourcedir = ""
        \/ (~replace /\ targetdir \in dirs)) =>
        /\ muts = {} /\ files = {}
        /\ \A b \in Buckets : job[b].pc = "none"
        /\ mpc \in {"flags", "check"}
        /\ exitcode \in {-1, 1}
        /\ exitcode = -1 => ENABLED (main_flags \/ check)

\* all flags given, the target exists, replace is false: exit 1 out of check()
C10_Witness ==
    /\ idvar # "" /\ idfile # "" /\ sourcedir # ""
    /\ targetdir \in dirs /\ ~replace
    /\ mpc = "check" /\ exitcode = 1

-----------------------------------------------------------------------------
(* Claims C11 .. C20 *)

\* how many complete records the input of the running transcoder holds
InputRecords ==
    IF fn = "douvarint" THEN Len(UvarintValues(src, 0).v)
    ELSE IF w > 0 THEN Len(src) \div w ELSE 0

\* C13: a transcoder whose input holds fewer complete records than the mask
\* has entries never returns normally and never passes the first mask
\* position without a record (no position is skipped or padded): the read at
\* that position panics.
C13_ShortInputIsFatal ==
    (fn \in {"dofixedwidth", "douvarint"} /\ (fn = "dofixedwidth" => w > 0)
        /\ InputRecords < Len(ix)) =>
        /\ st # "ret"
        /\ i <= InputRecords
        /\ rpos <= Len(src)

\* the panic at the first position without a record, after two records
C13_Witness ==
    /\ fn = "dofixedwidth" /\ w = 4 /\ Len(ix) = 3
    /\ InputRecords = 2 /\ i = 2 /\ st = "panic"

\* C14: when a transcoder has returned or panicked, the encoder was closed
\* before the output file, and the input file after both; nothing is closed
\* while it runs.
ClosedAt(c) == { j \in 1..Len(ev) : ev[j] = c }

C14_CloseOrder ==
    fn \in {"dofixedwidth", "douvarint"} =>
        /\ st = "run" => ev = <<>>
        /\ st \in {"ret", "panic"} =>
              /\ \A c \in {"wtr.Close", "fid2.Close", "fid1.Close"} :
                    Cardinality(ClosedAt(c)) = 1
              /\ \A p \in ClosedAt("wtr.Close"), q \in ClosedAt("fid2.Close"),
                    r \in ClosedAt("fid1.Close") : p < q /\ q < r

\* a panic in the middle of douvarint, the closes done
C14_Witness ==
    /\ fn = "douvarint" /\ st = "panic" /\ i = 1 /\ Len(ix) = 3
    /\ Len(ev) = 3

\* C19: a transcoder whose input holds more records than the mask has
\* entries does not fail; it returns having read exactly len(ix) records,
\* with the selected ones of those as its output, and leaves the surplus unread.
C19_SurplusIgnored ==
    (fn \in {"dofixedwidth", "douvarint"} /\ (fn = "dofixedwidth" => w > 0)
        /\ InputRecords > Len(ix)) =>
        /\ st # "panic"
        /\ st = "ret" =>
              /\ i = Len(ix)
              /\ rpos < Len(src)
              /\ fn = "dofixedwidth" =>
                    /\ rpos = Len(ix) * w
                    /\ out = Concat([j \in 1..Len(TrueIdx(ix)) |->
                                        RecordAt(src, TrueIdx(ix)[j], w)])

\* some partition job has been launched
Launched == \E b \in Buckets : job[b].pc # "none"

\* the contents ids can have after a getids that returned
LoadedIds ==
    { SortU64(ScanIds(f, <<>>).ids) : f \in { g \in IdFiles :
                                                ScanIds(g, <<>>).err = "nil" } }

\* C16: when the first job is launched getids has returned, so that ids holds
\* the values of all lines of the identifier file in ascending order and the
\* run was not aborted by getids; from then on no step changes ids.
C16_IdsLoadedThenFrozen ==
    /\ [](Launched =>
            /\ mpc \in {"acquire", "go", "drain", "return"}
            /\ IsSortedU64(ids)
            /\ ids \in LoadedIds)
    /\ [](mpc = "getids" /\ exitcode = 2 => ~Launched)
    /\ [][Launched => ids' = ids]_vars

\* a job has run to its end with two identifiers loaded
C16_Witness ==
    /\ \E b \in Buckets : job[b].pc = "exit"
    /\ Len(ids) = 2 /\ ids[1] = U64(1) /\ ids[2] = U64(3)

\* a line that is an unsigned 64-bit integer literal: digits only, at least
\* one, the value below 2^64
IsUint64Literal(s) ==
    /\ s # <<>>
    /\ \A p \in 1..Len(s) : IsDigit(s[p])
    /\ ParseMag(s, 1, U64(0)).err = "nil"

\* C17: getids appends the value of a line, unchanged, exactly when the line
\* is an unsigned 64-bit integer literal, and panics on any other line.
C17_LiteralDomain ==
    (fn = "getids" /\ st \in {"run", "panic"}) =>
        /\ \A p \in 1..Len(ids) :
              /\ IsUint64Literal(src[p])
              /\ ids[p] = ParseMag(src[p], 1, U64(0)).v
        /\ st = "panic" => ~IsUint64Literal(src[rpos + 1])

\* a configuration document (GetConfig) or the type metadata of a partition
\* (ReadDtypes) was missing or malformed
ConfigError ==
    \/ mpc = "GetConfig" /\ exitcode = 2
    \/ \E b \in Buckets : job[b].err = "dtypes"

\* C15: when a configuration or type-metadata document turns out missing or
\* malformed, no partition job has been launched and nothing has been written
\* under the target partition directories.
C15_ConfigErrorBeforeWork ==
    ConfigError => ~Launched /\ files = {}

\* main is in its dispatch loop or its drain loop
Dispatching == Running /\ mpc \in {"acquire", "go", "drain"}

\* a job has ended in a panic
JobError == \E b \in Buckets : job[b].pc = "dying"

\* the slots main has put into sem so far
Acquired ==
    IF mpc = "acquire" THEN k
    ELSE IF mpc = "go" THEN k + 1
    ELSE IF mpc = "drain" THEN NumBuckets + k
    ELSE IF mpc = "return" THEN NumBuckets + concurrency
    ELSE 0

\* the jobs that have ended, normally or in a panic
Ended == { b \in Buckets : job[b].pc \in {"exit", "dying"} }

\* C18: under fair scheduling main, once in its dispatch or drain loop,
\* reaches the completion record unless a job panics; sem always holds the
\* slots main has put in less one per ended job (each job releases one slot,
\* once, however it ends); no job is launched twice, and at the completion
\* record exactly the partitions 0..NumBuckets-1 have been launched.
C18_SchedulerProgress ==
    /\ Dispatching ~> (done \/ JobError)
    /\ [](mpc \in {"acquire", "go", "drain", "return"} =>
            sem = Acquired - Cardinality(Ended))
    /\ [](done => \A b \in Buckets : (job[b].pc # "none") <=> (b < NumBuckets))
    /\ [][\A b \in Buckets :
            job'[b].pc = "ReadDtypes" =>
                job[b].pc \in {"none", "ReadDtypes"}]_vars

\* the completion record after three jobs that all ran to their end, with
\* fewer slots than jobs
C18_Witness ==
    /\ done /\ NumBuckets = MaxBuckets /\ MaxBuckets > concurrency
    /\ \A b \in Buckets : job[b].pc = "exit"

\* the rows of the source bucket: the records of the key column by its
\* declared type (every column holds as many)
BucketRows == Len(sbucket.cols[idvar]) \div DTsizeOf(sbucket.dtypes[idvar])

\* a transcoder is running in dobucket(0), called with the mask ix
InTranscode == job[0].pc = "columns" /\ fn \in {"dofixedwidth", "douvarint"}

\* C12: in a bucket whose columns all hold R records, the mask handed to a
\* column transcode has length R, whatever fixed-width tag the key column is
\* declared with.
C12_MaskLengthIsRowCount ==
    InTranscode => Len(ix) = BucketRows

\* C20: dobucket calls dofixedwidth only with a record width from 1 to 8,
\* whatever tag the type metadata holds.
C20_WidthNeverZero ==
    fn = "dofixedwidth" => w \in 1..8

====
